---- MODULE Spec2Model ----
(***************************************************************************)
(* ProxyRiskScoreChecker: the proxy address parser / formatter             *)
(* (ParseProxy, ConvertProxyFormat) and the validation / risk filtering    *)
(* pipeline (Run, ValidateAndSaveProxies, FilterProxies).                  *)
(*                                                                         *)
(* A string is a sequence of tokens.  The tokens ":", "@", "/" and " " are *)
(* the characters the code looks at; "1" is a decimal digit, "a" a letter  *)
(* that is part of no protocol keyword, and "http", "https", "socks5" are  *)
(* the three keywords of the regular expressions, written as one token.    *)
(* The empty sequence is Go's "".                                          *)
(***************************************************************************)
EXTENDS Integers, Sequences, FiniteSets, TLC

\* ------------------------------------------------------------------ bounds
MaxFields == 4
MaxProxies == 3

\* ----------------------------------------------------------- string helpers
Keywords == {"http", "https", "socks5"}

Empty == << >>

IsDigits(s) == Len(s) > 0 /\ \A i \in 1..Len(s) : s[i] = "1"

Max(S) == CHOOSE x \in S : \A y \in S : y <= x

Tail2(s, n) == SubSeq(s, n, Len(s))

\* strings.TrimSpace
RECURSIVE TrimLeft(_)
TrimLeft(s) == IF Len(s) > 0 /\ s[1] = " " THEN TrimLeft(Tail(s)) ELSE s

RECURSIVE TrimRight(_)
TrimRight(s) ==
    IF Len(s) > 0 /\ s[Len(s)] = " " THEN TrimRight(SubSeq(s, 1, Len(s) - 1)) ELSE s

TrimSpace(s) == TrimRight(TrimLeft(s))

\* strings.Split(s, ":"): the fields between the colons, empty ones included
RECURSIVE Split(_)
Split(s) ==
    LET colons == {i \in 1..Len(s) : s[i] = ":"}
    IN  IF colons = {} THEN << s >>
        ELSE LET k == Max(colons)
             IN  Append(Split(SubSeq(s, 1, k - 1)), Tail2(s, k + 1))

\* ------------------------------------------------------ regular expressions
NoMatch == [ok |-> FALSE]

\* ^(.+):(\d+)$  - the port is the all-digit suffix after the last colon
MatchHostPort(s) ==
    LET colons == {i \in 2..(Len(s) - 1) : s[i] = ":" /\ IsDigits(Tail2(s, i + 1))}
    IN  IF colons = {} THEN NoMatch
        ELSE LET k == Max(colons)
             IN  [ok |-> TRUE, host |-> SubSeq(s, 1, k - 1), port |-> Tail2(s, k + 1)]

\* ^(.+):(.+)@(.+):(\d+)$  - leftmost-first: the first group is as long as a
\* match allows, then the second group is as long as a match allows
MatchAuth(s) ==
    LET ks == {k \in 1..(Len(s) - 1) : s[k] = ":" /\ IsDigits(Tail2(s, k + 1))}
    IN  IF ks = {} THEN NoMatch
        ELSE LET k  == Max(ks)
                 ats(i) == {j \in (i + 2)..(k - 2) : s[j] = "@"}
                 is == {i \in 2..(k - 4) : s[i] = ":" /\ ats(i) # {}}
             IN  IF is = {} THEN NoMatch
                 ELSE LET i == Max(is)
                          j == Max(ats(i))
                      IN  [ok |-> TRUE,
                           user |-> SubSeq(s, 1, i - 1),
                           password |-> SubSeq(s, i + 1, j - 1),
                           host |-> SubSeq(s, j + 1, k - 1),
                           port |-> Tail2(s, k + 1)]

\* the string begins (http|https|socks5)://
HasScheme(s) ==
    Len(s) >= 4 /\ s[1] \in Keywords /\ s[2] = ":" /\ s[3] = "/" /\ s[4] = "/"

\* ^(http|https|socks5):/?/?  - the length of the match, 0 when there is none
PrefixLen(s) ==
    IF Len(s) >= 2 /\ s[1] \in Keywords /\ s[2] = ":"
    THEN IF Len(s) >= 3 /\ s[3] = "/"
         THEN IF Len(s) >= 4 /\ s[4] = "/" THEN 4 ELSE 3
         ELSE 2
    ELSE 0

\* ------------------------------------------------------------- ParseProxy
Descriptor(h, p, u, pw, proto) ==
    [host |-> h, port |-> p, user |-> u, password |-> pw, protocol |-> proto]

EmptyDescriptor == Descriptor(Empty, Empty, Empty, Empty, Empty)

\* the final default of ParseProxy
DefaultProtocol(protocol) == IF protocol = Empty THEN << "http" >> ELSE protocol

\* the strings.Split switch and the default that follows it
ParseFields(rest, protocol) ==
    LET parts == Split(rest)
    IN  CASE Len(parts) = 4 ->
               Descriptor(parts[1], parts[2], parts[3], parts[4], DefaultProtocol(protocol))
          [] Len(parts) = 3 ->
               IF parts[1] \in {<< k >> : k \in Keywords}
               THEN Descriptor(parts[2], parts[3], Empty, Empty, parts[1])
               ELSE Descriptor(parts[1], parts[2], parts[3], Empty, DefaultProtocol(protocol))
          [] Len(parts) = 2 ->
               Descriptor(parts[1], parts[2], Empty, Empty, DefaultProtocol(protocol))
          [] OTHER -> EmptyDescriptor

\* the userPassHostPattern branch: it returns without the final default
ParseUserPassHost(m, protocol) ==
    Descriptor(m.host, m.port, m.user, m.password, protocol)

ParseProxy(raw) ==
    LET proxy == TrimSpace(raw)
        m1 == IF HasScheme(proxy) THEN MatchAuth(Tail2(proxy, 5)) ELSE NoMatch
        m2 == IF HasScheme(proxy) THEN MatchHostPort(Tail2(proxy, 5)) ELSE NoMatch
        n  == PrefixLen(proxy)
        protocol == IF n > 0 THEN << proxy[1] >> ELSE Empty
        rest == Tail2(proxy, n + 1)
        m4 == MatchAuth(rest)
    IN  IF m1.ok THEN Descriptor(m1.host, m1.port, m1.user, m1.password, << proxy[1] >>)
        ELSE IF m2.ok THEN Descriptor(m2.host, m2.port, Empty, Empty, << proxy[1] >>)
        ELSE IF m4.ok THEN ParseUserPassHost(m4, protocol)
        ELSE ParseFields(rest, protocol)

\* ------------------------------------------------------ ConvertProxyFormat
FormatDescriptor(d) ==
    IF d.host = Empty \/ d.port = Empty THEN Empty
    ELSE IF d.user # Empty /\ d.password # Empty
         THEN d.protocol \o << ":", "/", "/" >> \o d.user \o << ":" >> \o d.password
                  \o << "@" >> \o d.host \o << ":" >> \o d.port
         ELSE d.protocol \o << ":", "/", "/" >> \o d.host \o << ":" >> \o d.port

ConvertProxyFormat(proxy) == FormatDescriptor(ParseProxy(proxy))

\* ------------------------------------------------------------------- state
VARIABLES
    entry,          \* the operation under execution: "Run", "Validator" or "Parse"
    pc,             \* where that operation stands
    apiKeySet,      \* the API_KEY environment variable is set
    fileReadable,   \* the input file opens and scans without error
    fileLines,      \* the lines of the input file
    proxyInput,     \* proxyInput / proxyList: the list under validation
    idx,            \* index of the next entry of the running range loop
    formattedProxy, \* formattedProxy of ProxyService.ValidateAndSaveProxies
    vResults,       \* verdict of each entry the validation loop has evaluated
    validProxies,   \* validProxies of ValidateAndSaveProxies
    validFile,      \* validproxys.txt: "unwritten", "failed" or "written"
    retList,        \* the list ValidateAndSaveProxies returned
    retErr,         \* "pending", or how ValidateAndSaveProxies ended: "nil", "error"
                    \* (an error returned) or "logged" (an error logged, none returned)
    rResults,       \* outbound IP and score of each entry FilterProxies has evaluated
    filteredProxies,\* filteredProxies of FilterProxies
    finalFile,      \* proxies_risk_score_0.txt: "unwritten", "failed" or "written"
    exitCode,       \* "running", or the exit code of the process
    input,          \* the string handed to ConvertProxyFormat
    desc,           \* the descriptor ParseProxy returned for input
    uri,            \* ConvertProxyFormat(input)
    desc2,          \* the descriptor ParseProxy returned for uri
    uri2            \* ConvertProxyFormat(uri)

vars == << entry, pc, apiKeySet, fileReadable, fileLines, proxyInput, idx,
           formattedProxy, vResults,
           validProxies, validFile, retList, retErr, rResults, filteredProxies,
           finalFile, exitCode, input, desc, uri, desc2, uri2 >>

runVars == << apiKeySet, fileReadable, fileLines, proxyInput, idx, formattedProxy, vResults,
              validProxies, validFile, retList, retErr, rResults, filteredProxies,
              finalFile, exitCode >>

parseVars == << input, desc, uri, desc2, uri2 >>

\* --------------------------------------------------------- input universes
GoodLine == << "a", ":", "1" >>
BadLine == << "a" >>
AuthLine == << "a", ":", "a", "@", "a", ":", "1" >>
BlankLine == << " " >>

LinePool == {GoodLine, BadLine, AuthLine, BlankLine}

SeqsUpTo(S, n) == UNION {[1..k -> S] : k \in 0..n}

\* a score the reputation API may report: clean, or risky
FraudScores == {0, 75}

\* what the reputation API request may produce: no usable answer, or a JSON body
ApiResponses ==
    {[answered |-> FALSE, success |-> FALSE, fraud_score |-> 0]}
        \cup {[answered |-> TRUE, success |-> ok, fraud_score |-> f] :
                  ok \in BOOLEAN, f \in FraudScores}

\* what the IP echo request through the proxy may produce: "" stands for every
\* failure (URL parse, request, status, body, JSON) and for an empty ip field
IpBodies == {Empty, << "1" >>}

Prefixes ==
    {Empty} \cup UNION {{<< k, ":" >>, << k, ":", "/" >>, << k, ":", "/", "/" >>} :
                            k \in Keywords}

FieldPool == {Empty, << "a" >>, << "1" >>, << "http" >>}

Separators == {":", "@"}

RECURSIVE Join(_, _)
Join(fields, seps) ==
    IF Len(fields) = 1 THEN fields[1]
    ELSE fields[1] \o << seps[1] >> \o Join(Tail(fields), Tail(seps))

Bodies ==
    UNION {{Join(f, s) : f \in [1..n -> FieldPool], s \in [1..(n - 1) -> Separators]} :
               n \in 1..MaxFields}

\* an optional protocol prefix and up to MaxFields fields, as a line of the file
\* holds it or with blanks around it
Inputs ==
    LET lines == {p \o b : p \in Prefixes, b \in Bodies}
    IN  lines \cup {<< " " >> \o l \o << " " >> : l \in lines}

\* the strings the pipeline hands to ConvertProxyFormat: the lines of the pool as
\* read from the file, and the URIs ConvertProxyFormat makes of them
PipelineStrings ==
    LET lines == LinePool \cup {TrimSpace(l) : l \in LinePool}
    IN  lines \cup {ConvertProxyFormat(l) : l \in lines}

\* ConvertProxyFormat on those strings, computed once
ConvertTable == [p \in PipelineStrings |-> ConvertProxyFormat(p)]

\* proxyConverter.ConvertProxyFormat as the services call it
Converted(proxy) == ConvertTable[proxy]

\* ------------------------------------------------------ pipeline operators
\* ReadProxiesFromFile: the trimmed, non-empty lines in file order
RECURSIVE ReadProxiesFromFile(_)
ReadProxiesFromFile(lines) ==
    IF lines = Empty THEN Empty
    ELSE LET line == TrimSpace(Head(lines))
         IN  IF line # Empty THEN << line >> \o ReadProxiesFromFile(Tail(lines))
             ELSE ReadProxiesFromFile(Tail(lines))

\* ProxyValidator.ValidateProxy: respOk says the GET through the proxy came
\* back with status 200 (the URL parsed, the request was built and answered)
ValidateProxy(proxy, respOk) ==
    IF Converted(proxy) = Empty THEN FALSE ELSE respOk

\* RiskScoreService.GetOutboundIP: body is the ip field the echo request gave
GetOutboundIP(proxy, body) ==
    IF Converted(proxy) = Empty THEN Empty ELSE body

\* RiskScoreService.CheckIPRiskScore
CheckIPRiskScore(resp) ==
    IF ~resp.answered THEN -1
    ELSE IF ~resp.success THEN -1
    ELSE resp.fraud_score

\* FilterProxies: the test that guards the append
KeepLowScore(riskScore) == riskScore <= 0

KeepProxy(riskScore) == riskScore = 0

\* append(list, proxy) of both loops
PrependProxy(list, proxy) == << proxy >> \o list

AppendProxy(list, proxy) == Append(list, proxy)

\* the range loops: after an entry, kept or skipped (continue), the next one
BreakOnSkip(i, n, kept) == IF kept THEN i + 1 ELSE n + 1

NextEntry(i, n, kept) == i + 1

\* main: os.Exit(1) when Run returned an error, a normal return otherwise
ExitAlwaysZero(failed) == 0

ExitStatus(failed) == IF failed THEN 1 ELSE 0

\* Run: the test after ValidateAndSaveProxies
NeverEmpty(valid) == FALSE

NoValidProxies(valid) == Len(valid) = 0

\* ProxyService.ValidateAndSaveProxies: what it returns when the save failed
KeepOnSaveError(valid) == valid

ListOnSaveError(valid) == Empty

\* saveProxiesToFile: created and every line written, or an error
saveProxiesToFile(fileOk) == IF fileOk THEN "written" ELSE "failed"

\* the log entries of the two loops
Verdict(proxy, v) == [proxy |-> proxy, verdict |-> v]

Scored(proxy, ip, s) == [proxy |-> proxy, ip |-> ip, looked |-> TRUE, score |-> s]

NoIP(proxy) == [proxy |-> proxy, ip |-> Empty, looked |-> FALSE, score |-> -1]

\* -------------------------------------------------------------------- Init
InitParseIdle ==
    /\ input = Empty
    /\ desc = EmptyDescriptor
    /\ uri = Empty
    /\ desc2 = EmptyDescriptor
    /\ uri2 = Empty

InitRunIdle ==
    /\ idx = 1
    /\ formattedProxy = Empty
    /\ vResults = Empty
    /\ validProxies = Empty
    /\ validFile = "unwritten"
    /\ retList = Empty
    /\ retErr = "pending"
    /\ rResults = Empty
    /\ filteredProxies = Empty
    /\ finalFile = "unwritten"
    /\ exitCode = -1

\* main calls Run, or a caller hands a list to ProxyValidator.ValidateAndSaveProxies
Init ==
    /\ InitParseIdle
    /\ InitRunIdle
    /\ \/ /\ entry = "Run"
          /\ pc = "prepare"
          /\ apiKeySet \in BOOLEAN
          /\ fileReadable \in BOOLEAN
          /\ fileLines \in SeqsUpTo(LinePool, MaxProxies)
          /\ proxyInput = Empty
       \/ /\ entry = "Validator"
          /\ pc = "validate"
          /\ apiKeySet = FALSE
          /\ fileReadable = FALSE
          /\ fileLines = Empty
          /\ proxyInput \in SeqsUpTo(LinePool, MaxProxies)

\* ----------------------------------------------------------------- actions
Exit(code) ==
    /\ pc' = "exit"
    /\ exitCode' = code

\* prepareProxies, and Run's return on its error
Prepare ==
    /\ entry = "Run" /\ pc = "prepare"
    /\ IF ~apiKeySet \/ ~fileReadable
       THEN Exit(ExitStatus(TRUE)) /\ UNCHANGED proxyInput
       ELSE /\ proxyInput' = ReadProxiesFromFile(fileLines)
            /\ IF Len(proxyInput') = 0
               THEN Exit(ExitStatus(TRUE))
               ELSE pc' = "validate" /\ UNCHANGED exitCode
    /\ UNCHANGED << entry, apiKeySet, fileReadable, fileLines, idx, formattedProxy,
                    vResults, validProxies, validFile, retList, retErr, rResults,
                    filteredProxies, finalFile >>
    /\ UNCHANGED parseVars

\* the loop of ProxyService.ValidateAndSaveProxies takes its next entry and
\* formats it; an entry without a format is logged and skipped
FormatStep ==
    /\ entry = "Run" /\ pc = "validate" /\ idx <= Len(proxyInput)
    /\ LET proxy == proxyInput[idx]
       IN  /\ formattedProxy' = Converted(proxy)
           /\ IF formattedProxy' = Empty
              THEN /\ vResults' = Append(vResults, Verdict(proxy, "invalid"))
                   /\ idx' = NextEntry(idx, Len(proxyInput), FALSE)
                   /\ UNCHANGED pc
              ELSE /\ pc' = "validating"
                   /\ UNCHANGED << idx, vResults >>
    /\ UNCHANGED << entry, apiKeySet, fileReadable, fileLines, proxyInput, validProxies,
                    validFile, retList, retErr, rResults, filteredProxies,
                    finalFile, exitCode >>
    /\ UNCHANGED parseVars

\* the same iteration: ValidateProxy on the formatted proxy, and the append
ValidateStep ==
    /\ entry = "Run" /\ pc = "validating"
    /\ LET proxy == proxyInput[idx]
       IN  \E respOk \in BOOLEAN :
              IF ValidateProxy(formattedProxy, respOk)
              THEN /\ vResults' = Append(vResults, Verdict(proxy, "ok"))
                   /\ validProxies' = AppendProxy(validProxies, proxy)
                   /\ idx' = NextEntry(idx, Len(proxyInput), TRUE)
              ELSE /\ vResults' = Append(vResults, Verdict(proxy, "rejected"))
                   /\ UNCHANGED validProxies
                   /\ idx' = NextEntry(idx, Len(proxyInput), FALSE)
    /\ pc' = "validate"
    /\ UNCHANGED << entry, apiKeySet, fileReadable, fileLines, proxyInput, formattedProxy,
                    validFile, retList, retErr, rResults, filteredProxies,
                    finalFile, exitCode >>
    /\ UNCHANGED parseVars

\* the end of ProxyService.ValidateAndSaveProxies, and what Run does with its
\* result before it calls FilterProxies
SaveValid ==
    /\ entry = "Run" /\ pc = "validate" /\ idx > Len(proxyInput)
    /\ \E fileOk \in BOOLEAN :
          /\ validFile' = saveProxiesToFile(fileOk)
          /\ IF validFile' = "failed"
             THEN /\ retList' = ListOnSaveError(validProxies)
                  /\ retErr' = "error"
                  /\ Exit(ExitStatus(TRUE))
                  /\ UNCHANGED idx
             ELSE /\ retList' = validProxies
                  /\ retErr' = "nil"
                  /\ IF NoValidProxies(retList')
                     THEN Exit(ExitStatus(TRUE)) /\ UNCHANGED idx
                     ELSE pc' = "filter" /\ idx' = 1 /\ UNCHANGED exitCode
    /\ UNCHANGED << entry, apiKeySet, fileReadable, fileLines, proxyInput, formattedProxy,
                    vResults, validProxies, rResults, filteredProxies, finalFile >>
    /\ UNCHANGED parseVars

\* one iteration of the loop of RiskScoreService.FilterProxies over retList
FilterStep ==
    /\ entry = "Run" /\ pc = "filter" /\ idx <= Len(retList)
    /\ LET proxy == retList[idx]
       IN  \E body \in IpBodies :
              LET outboundIP == GetOutboundIP(proxy, body)
              IN  IF outboundIP = Empty
                  THEN /\ rResults' = Append(rResults, NoIP(proxy))
                       /\ UNCHANGED filteredProxies
                       /\ idx' = NextEntry(idx, Len(retList), FALSE)
                  ELSE \E resp \in ApiResponses :
                          LET riskScore == CheckIPRiskScore(resp)
                          IN  /\ rResults' = Append(rResults,
                                                    Scored(proxy, outboundIP, riskScore))
                              /\ IF KeepProxy(riskScore)
                                 THEN filteredProxies' = AppendProxy(filteredProxies, proxy)
                                 ELSE UNCHANGED filteredProxies
                              /\ idx' = NextEntry(idx, Len(retList), KeepProxy(riskScore))
    /\ UNCHANGED << entry, pc, apiKeySet, fileReadable, fileLines, proxyInput,
                    formattedProxy, vResults, validProxies, validFile, retList, retErr,
                    finalFile, exitCode >>
    /\ UNCHANGED parseVars

\* the end of FilterProxies, the save of the final list and Run's return
SaveFinal ==
    /\ entry = "Run" /\ pc = "filter" /\ idx > Len(retList)
    /\ \E fileOk \in BOOLEAN :
          /\ finalFile' = saveProxiesToFile(fileOk)
          /\ Exit(ExitStatus(finalFile' = "failed"))
    /\ UNCHANGED << entry, apiKeySet, fileReadable, fileLines, proxyInput, idx,
                    formattedProxy, vResults, validProxies, validFile, retList, retErr,
                    rResults, filteredProxies >>
    /\ UNCHANGED parseVars

\* one iteration of the loop of ProxyValidator.ValidateAndSaveProxies
ValidatorStep ==
    /\ entry = "Validator" /\ pc = "validate" /\ idx <= Len(proxyInput)
    /\ LET proxy == proxyInput[idx]
       IN  \E respOk \in BOOLEAN :
              IF ValidateProxy(proxy, respOk)
              THEN /\ vResults' = Append(vResults, Verdict(proxy, "ok"))
                   /\ validProxies' = AppendProxy(validProxies, proxy)
                   /\ idx' = NextEntry(idx, Len(proxyInput), TRUE)
              ELSE /\ vResults' = Append(vResults, Verdict(proxy,
                         IF Converted(proxy) = Empty THEN "invalid" ELSE "rejected"))
                   /\ UNCHANGED validProxies
                   /\ idx' = NextEntry(idx, Len(proxyInput), FALSE)
    /\ UNCHANGED << entry, pc, apiKeySet, fileReadable, fileLines, proxyInput,
                    formattedProxy, validFile, retList, retErr, rResults, filteredProxies,
                    finalFile, exitCode >>
    /\ UNCHANGED parseVars

\* the end of ProxyValidator.ValidateAndSaveProxies: a failed create or write
\* is logged as an error, the list is returned, and there is no error result
ValidatorSave ==
    /\ entry = "Validator" /\ pc = "validate" /\ idx > Len(proxyInput)
    /\ \E fileOk \in BOOLEAN : validFile' = saveProxiesToFile(fileOk)
    /\ retList' = validProxies
    /\ retErr' = IF validFile' = "failed" THEN "logged" ELSE "nil"
    /\ pc' = "returned"
    /\ UNCHANGED << entry, apiKeySet, fileReadable, fileLines, proxyInput, idx,
                    formattedProxy, vResults, validProxies, rResults, filteredProxies,
                    finalFile, exitCode >>
    /\ UNCHANGED parseVars

Next ==
    \/ Prepare
    \/ FormatStep
    \/ ValidateStep
    \/ SaveValid
    \/ FilterStep
    \/ SaveFinal
    \/ ValidatorStep
    \/ ValidatorSave

Spec == Init /\ [][Next]_vars

\* every network call returns and the process is scheduled until it exits
FairSpec == Spec /\ WF_vars(Next)

\* ------------------------------------------- the parser as a state machine
ParseInit ==
    /\ entry = "Parse"
    /\ pc = "input"
    /\ apiKeySet = FALSE
    /\ fileReadable = FALSE
    /\ fileLines = Empty
    /\ proxyInput = Empty
    /\ InitRunIdle
    /\ input \in Inputs
    /\ desc = EmptyDescriptor
    /\ uri = Empty
    /\ desc2 = EmptyDescriptor
    /\ uri2 = Empty

\* ConvertProxyFormat on a raw line
Convert ==
    /\ entry = "Parse" /\ pc = "input"
    /\ desc' = ParseProxy(input)
    /\ uri' = FormatDescriptor(desc')
    /\ pc' = "converted"
    /\ UNCHANGED << entry, input, desc2, uri2 >>
    /\ UNCHANGED runVars

\* ConvertProxyFormat on the URI the first call returned, as ValidateProxy
\* does with the formatted proxy it is handed
Reconvert ==
    /\ entry = "Parse" /\ pc = "converted"
    /\ desc2' = ParseProxy(uri)
    /\ uri2' = FormatDescriptor(desc2')
    /\ pc' = "reconverted"
    /\ UNCHANGED << entry, input, desc, uri >>
    /\ UNCHANGED runVars

ParseNext ==
    \/ Convert
    \/ Reconvert

ParseSpec == ParseInit /\ [][ParseNext]_vars

\* ------------------------------------------------------------------ claims
Valid(d) == d.host # Empty /\ d.port # Empty

Range(s) == {s[i] : i \in 1..Len(s)}

\* the proxies of the entries of log, in order, that are in keep
RECURSIVE Select(_, _)
Select(log, keep) ==
    IF log = Empty THEN Empty
    ELSE IF Head(log) \in keep THEN << Head(log).proxy >> \o Select(Tail(log), keep)
         ELSE Select(Tail(log), keep)

RECURSIVE IsSubsequence(_, _)
IsSubsequence(s, t) ==
    IF s = Empty THEN TRUE
    ELSE IF t = Empty THEN FALSE
    ELSE IF Head(s) = Head(t) THEN IsSubsequence(Tail(s), Tail(t))
    ELSE IsSubsequence(s, Tail(t))

Count(s, x) == Cardinality({i \in 1..Len(s) : s[i] = x})

Clean(r) == r.ip # Empty /\ r.looked /\ r.score = 0

Passed(v) == v.verdict = "ok"

Terminated == pc \in {"exit", "returned"}

\* C1: FilterProxies keeps a proxy only if GetOutboundIP gave a non-empty IP for
\* it and CheckIPRiskScore returned exactly 0 for that IP: every occurrence of a
\* proxy in the result is accounted for by an evaluated entry with that outcome,
\* so no entry with a failed lookup (-1) or a nonzero score is in the result.
C1_OnlyCleanKept ==
    \A p \in LinePool :
        Count(filteredProxies, p)
            <= Cardinality({i \in 1..Len(rResults) :
                               rResults[i].proxy = p /\ Clean(rResults[i])})

\* C1 witness: FilterProxies has finished a list in which one entry was kept,
\* one had a failed score lookup and one a nonzero score.
C1_Witness ==
    /\ pc = "exit"
    /\ filteredProxies # Empty
    /\ \E i \in 1..Len(rResults) : rResults[i].looked /\ rResults[i].score = -1
    /\ \E i \in 1..Len(rResults) : rResults[i].looked /\ rResults[i].score > 0

\* C2: the result of FilterProxies is a subsequence of its input list: the kept
\* proxies are input strings, in the input's relative order, none added or
\* duplicated.
C2_OrderPreserved == IsSubsequence(filteredProxies, retList)

\* C2 witness: two different proxies were kept, out of an input of three.
C2_Witness ==
    /\ pc = "exit"
    /\ Len(retList) = 3
    /\ Len(filteredProxies) = 2
    /\ filteredProxies[1] # filteredProxies[2]

FileEmpty == \A i \in 1..Len(fileLines) : TrimSpace(fileLines[i]) = Empty

NoSurvivor == \A i \in 1..Len(vResults) : ~Passed(vResults[i])

\* C3: Run ends with exit code 0 only when no fatal error occurred, and with a
\* non-zero exit code when the API key is missing, the input file is unreadable
\* or empty, no proxy survived validation, or an output file could not be written.
C3_ExitCode ==
    (entry = "Run" /\ pc = "exit") =>
        /\ exitCode \in {0, 1}
        /\ exitCode = 0 =>
              /\ apiKeySet /\ fileReadable /\ ~FileEmpty
              /\ Len(vResults) = Len(proxyInput) /\ ~NoSurvivor
              /\ validFile = "written" /\ finalFile = "written"
        /\ ~apiKeySet => exitCode # 0
        /\ ~fileReadable => exitCode # 0
        /\ FileEmpty => exitCode # 0
        /\ NoSurvivor => exitCode # 0
        /\ validFile = "failed" => exitCode # 0
        /\ finalFile = "failed" => exitCode # 0

\* C3 witness: a run that ended with exit code 0.
C3_Witness == entry = "Run" /\ pc = "exit" /\ exitCode = 0 /\ filteredProxies # Empty

\* C4: FilterProxies (any outbound-IP or reputation request) and the write of the
\* final file happen only after the whole list was validated and the intermediate
\* file was written; with zero survivors the run ends in an error, FilterProxies
\* never having run and the final file never having been written.
C4_RiskStageGated ==
    entry = "Run" =>
        /\ (pc = "filter" \/ rResults # Empty \/ finalFile # "unwritten") =>
              /\ Len(vResults) = Len(proxyInput)
              /\ validFile = "written"
              /\ ~NoSurvivor
        /\ (pc \notin {"prepare", "validate", "validating"} /\ NoSurvivor) =>
              /\ pc = "exit" /\ exitCode # 0
              /\ rResults = Empty /\ finalFile = "unwritten"

\* C4 witness: every entry was validated, none survived, and the run is over.
C4_Witness ==
    /\ entry = "Run" /\ pc = "exit"
    /\ Len(proxyInput) >= 2 /\ Len(vResults) = Len(proxyInput)
    /\ NoSurvivor /\ validFile = "written"

\* C5 as stated: when the output file cannot be created or written, the failure
\* is reported and the caller of ValidateAndSaveProxies still receives the
\* survivors computed in memory.
C5_ListKeptWithError ==
    validFile = "failed" => (retErr \in {"error", "logged"} /\ retList = validProxies)

\* C5 amended: on a failed create or write, ProxyService.ValidateAndSaveProxies
\* returns the error and no list (nil), while ProxyValidator.ValidateAndSaveProxies
\* returns the survivors and no error (the failure is only logged).
C5_ErrorOrList ==
    validFile = "failed" =>
        IF entry = "Run"
        THEN retErr = "error" /\ retList = Empty
        ELSE retErr = "logged" /\ retList = validProxies

\* C5 witness: the save failed after at least one proxy had passed validation.
C5_Witness == entry = "Run" /\ validFile = "failed" /\ validProxies # Empty

ValidationDone == pc \in {"filter", "exit", "returned"} /\ retErr # "pending"

FilterDone == pc = "exit" /\ finalFile # "unwritten"

\* what the logs say so far: entry i of a list is the i-th one evaluated, the
\* index stands right after the evaluated entries, the survivors are the entries
\* that passed, in order, and a finished loop has evaluated the whole list
BatchLogs ==
    /\ Len(vResults) <= Len(proxyInput)
    /\ \A i \in 1..Len(vResults) : vResults[i].proxy = proxyInput[i]
    /\ validProxies = Select(vResults, {v \in Range(vResults) : Passed(v)})
    /\ pc \in {"validate", "validating"} => idx = Len(vResults) + 1
    /\ ValidationDone => Len(vResults) = Len(proxyInput)
    /\ Len(rResults) <= Len(retList)
    /\ \A i \in 1..Len(rResults) : rResults[i].proxy = retList[i]
    /\ filteredProxies = Select(rResults, {r \in Range(rResults) : Clean(r)})
    /\ pc = "filter" => idx = Len(rResults) + 1
    /\ FilterDone => Len(rResults) = Len(retList)

\* C9: a per-item failure never aborts a batch: ValidateAndSaveProxies and
\* FilterProxies evaluate every entry of their list exactly once, in list order,
\* leave the failing entries out of the survivors and go on to the next entry,
\* and, every network call returning, the operation reaches its end.
C9_BatchNeverAborts == []BatchLogs /\ <>Terminated

\* C9 witness: both loops ran to the end of their lists although the first
\* entry of each failed (one unparseable or rejected, one without a clean score).
C9_Witness ==
    /\ FilterDone
    /\ Len(vResults) = 3 /\ ~Passed(vResults[1]) /\ Passed(vResults[3])
    /\ Len(rResults) = 2 /\ ~Clean(rResults[1]) /\ Clean(rResults[2])

NoProtocolGiven(s) == PrefixLen(TrimSpace(s)) = 0

\* C6: whenever ParseProxy returns a valid descriptor its protocol is one of
\* http, https, socks5, and it is http when the input names no protocol.
C6_ProtocolSet ==
    (pc # "input" /\ Valid(desc)) =>
        /\ desc.protocol \in {<< k >> : k \in Keywords}
        /\ NoProtocolGiven(input) => desc.protocol = << "http" >>

\* C7: formatting a valid descriptor and parsing the formatted string again
\* yields the same descriptor.
C7_RoundTrip == (pc = "reconverted" /\ Valid(desc)) => desc2 = desc

\* C8: the descriptor ParseProxy returns is valid or entirely empty.
C8_ValidOrEmpty == pc # "input" => (Valid(desc) \/ desc = EmptyDescriptor)

\* C10: ConvertProxyFormat is idempotent on its own non-empty output.
C10_ConvertIdempotent == (pc = "reconverted" /\ uri # Empty) => uri2 = uri

====
